---------------------------- MODULE Spec2Model ----------------------------
(***************************************************************************)
(* A model of the two stateful pieces of the repository:                   *)
(*                                                                         *)
(*   - the Terria class (src/unnamed/part_000): its model registry         *)
(*     (getModelById, addModel) and its bootstrap, start(), with the       *)
(*     helpers generateInitializationUrl and buildInitUrlFromFragment;     *)
(*   - the SearchBox component (src/lib/ReactViews/Search/SearchBox.jsx):  *)
(*     its event handlers and the lodash debounce it owns.                 *)
(*                                                                         *)
(* Strings that the code inspects character by character (URLs) are        *)
(* sequences of one-character strings; a value that may be undefined is    *)
(* either the record `undefined` or the value itself.                      *)
(***************************************************************************)
EXTENDS Integers, Sequences, FiniteSets, TLC

VARIABLES
    \* ---- Terria: the model registry (part_000:62) ----
    models,       \* this.models: a map from string ids to models
    lastCall,     \* the last registry call made, with its outcome
    firstAdded,   \* history: per id, the first model addModel was given
    \* ---- SearchBox ----
    props,        \* this.props, as the parent last rendered them
    debounced,    \* this.searchWithDebounce: its wait and its pending timer
    now,          \* the clock, in ms
    mounted,      \* between componentWillMount and componentWillUnmount
    event,        \* the event handled last
    emitted,      \* the prop callbacks called while handling it, in order
    \* ---- Terria.start ----
    configUrl,    \* options.configUrl
    baseUri,      \* new URI(options.configUrl).filename("")
    config,       \* the config loadJson5(configUrl) gave, once it has
    cfgFetch,     \* the config fetch: none, pending, done, failed
    fetches,      \* per entry of initializationUrls: its url and its state
    stories,      \* this.stories
    applied,      \* the json of each updateModelFromJson(catalog.group, ...)
    startPromise  \* the promise start returned: none, pending, resolved, rejected

registryVars == <<models, lastCall, firstAdded>>
searchVars == <<props, debounced, now, mounted, event, emitted>>
startVars == <<configUrl, baseUri, config, cfgFetch, fetches, stories, applied,
               startPromise>>

vars == <<models, lastCall, firstAdded,
          props, debounced, now, mounted, event, emitted,
          configUrl, baseUri, config, cfgFetch, fetches, stories, applied,
          startPromise>>

undefined == [undefined |-> TRUE]

-----------------------------------------------------------------------------
(* Terria: the model registry                                              *)

\* How many distinct model objects may carry the same id and class.
MaxObjects == 2

IdNames == {"a", "b"}

\* ModelReference = string | RemovedModelId
StringId(s) == [removed |-> FALSE, value |-> s]
RemovedModelId(s) == [removed |-> TRUE, value |-> s]
ModelReferences == {StringId(s) : s \in IdNames} \cup {RemovedModelId("a")}

\* ModelReference.isRemoved
isRemoved(ref) == ref.removed

\* The classes a model can be asked for, and their superclass.
Classes == {"BaseModel", "CatalogGroup", "CatalogItem", "WmsItem"}
Superclass(c) ==
    CASE c = "WmsItem" -> "CatalogItem"
      [] c = "CatalogItem" -> "BaseModel"
      [] c = "CatalogGroup" -> "BaseModel"
      [] OTHER -> "Object"

RECURSIVE IsSubclass(_, _)
IsSubclass(c, type) ==
    IF c = type THEN TRUE
    ELSE IF c = "Object" THEN FALSE
    ELSE IsSubclass(Superclass(c), type)

\* instanceOf(type, object): object instanceof type; false for undefined.
instanceOf(type, object) ==
    IF object = undefined THEN FALSE ELSE IsSubclass(object.cls, type)

\* The model objects a caller may construct: obj tells apart two objects of
\* the same id and class.
ModelObjects ==
    [id : ModelReferences, cls : Classes \ {"BaseModel"}, obj : 1..MaxObjects]

\* observable.map: has, get, set
MapHas(map, key) == key \in DOMAIN map
MapGet(map, key) == IF key \in DOMAIN map THEN map[key] ELSE undefined
MapSet(map, key, value) ==
    [k \in DOMAIN map \cup {key} |-> IF k = key THEN value ELSE map[k]]

DuplicateIdError == "RuntimeError: A model with the specified ID already exists."
NoError == "none"

\* getModelById without its instanceOf test: the model under id, of any type.
getModelByIdUntyped(map, type, id) ==
    IF isRemoved(id) THEN undefined ELSE MapGet(map, id)

\* The value getModelById returns.
getModelByIdResult(map, type, id) ==
    IF isRemoved(id) THEN undefined
    ELSE LET model == MapGet(map, id)
         IN  IF instanceOf(type, model) THEN model
             ELSE undefined

getModelById(type, id) ==
    /\ lastCall' = [op |-> "getModelById", type |-> type, id |-> id,
                    result |-> getModelByIdResult(models, type, id)]
    /\ UNCHANGED <<models, firstAdded>>
    /\ UNCHANGED <<searchVars, startVars>>

\* addModel without its has() test: a second model replaces the first.
addModelOverwrites(map, model) ==
    IF isRemoved(model.id) THEN [models |-> map, threw |-> NoError]
    ELSE [models |-> MapSet(map, model.id, model), threw |-> NoError]

\* What addModel does to the registry, and what it throws.
addModelOutcome(map, model) ==
    IF isRemoved(model.id) THEN [models |-> map, threw |-> NoError]
    ELSE IF MapHas(map, model.id)
         THEN [models |-> map, threw |-> DuplicateIdError]
         ELSE [models |-> MapSet(map, model.id, model), threw |-> NoError]

addModel(model) ==
    LET out == addModelOutcome(models, model)
    IN  /\ models' = out.models
        /\ lastCall' = [op |-> "addModel", model |-> model, threw |-> out.threw]
        /\ firstAdded' =
              IF isRemoved(model.id) \/ MapHas(firstAdded, model.id)
              THEN firstAdded
              ELSE MapSet(firstAdded, model.id, model)
        /\ UNCHANGED <<searchVars, startVars>>

RegistryInit ==
    /\ models = <<>>
    /\ lastCall = [op |-> "none"]
    /\ firstAdded = <<>>

RegistryNext ==
    \/ \E model \in ModelObjects : addModel(model)
    \/ \E type \in Classes, id \in ModelReferences : getModelById(type, id)

-----------------------------------------------------------------------------
(* SearchBox                                                               *)

DEBOUNCE_INTERVAL == 1000

\* The clock advances in steps of TickStep ms up to MaxTime ms.
TickStep == 500
MaxTime == 3000

\* An optional number (a prop that may be undefined, a timer that may not be
\* set) is <<>> or <<n>>.
None == <<>>
Some(n) == <<n>>

Texts == {"", "a", "ab"}
Durations == {None, Some(0), Some(500)}
KeyCodes == {13, 65}

\* The props the parent may render the component with. onSearchTextChanged
\* and onDoSearch are required; onFocus and onClear may be missing.
PropsSet ==
    [searchText : Texts, debounceDuration : Durations,
     alwaysShowClear : BOOLEAN, onClear : BOOLEAN, onFocus : BOOLEAN]

\* getDefaultProps, with the props a parent has to give.
DefaultProps ==
    [searchText |-> "", debounceDuration |-> None,
     alwaysShowClear |-> FALSE, onClear |-> FALSE, onFocus |-> FALSE]

Call(fn, args) == [fn |-> fn, args |-> args]

\* lodash debounce(func, wait): trailing edge only.
debounce(wait) == [wait |-> wait, timer |-> None]
\* debounced(): (re)starts the timer, to run func wait ms after this call.
debouncedCall(d, time) == [d EXCEPT !.timer = Some(time + d.wait)]
\* debounced.cancel()
debouncedCancel(d) == [d EXCEPT !.timer = None]

\* removeDebounce()
removeDebounce(d) == debouncedCancel(d)

\* search(): the debounce it leaves, and the calls it makes
searchDebounce(d) == removeDebounce(d)
searchCalls == <<Call("onDoSearch", <<>>)>>

\* hasValue()
hasValue(p) == Len(p.searchText) > 0

\* render(): whether the clear button is there to be clicked
clearButtonShown(p) == p.alwaysShowClear \/ hasValue(p)

\* handleChange(event), event.target.value = value
handleChange(value) ==
    /\ mounted
    /\ value # props.searchText
    /\ event' = [type |-> "change", value |-> value]
    /\ IF Len(props.searchText) = 0
       THEN /\ emitted' = <<Call("onSearchTextChanged", <<value>>)>> \o searchCalls
            /\ debounced' = searchDebounce(debounced)
       ELSE /\ emitted' = <<Call("onSearchTextChanged", <<value>>)>>
            /\ debounced' = debouncedCall(debounced, now)
    /\ UNCHANGED <<props, now, mounted>>
    /\ UNCHANGED <<registryVars, startVars>>

\* clearSearch(): the clear button's onClick
clearSearch ==
    /\ mounted
    /\ clearButtonShown(props)
    /\ event' = [type |-> "click"]
    /\ emitted' = <<Call("onSearchTextChanged", <<"">>)>> \o searchCalls
                    \o (IF props.onClear THEN <<Call("onClear", <<>>)>> ELSE <<>>)
    /\ debounced' = searchDebounce(debounced)
    /\ UNCHANGED <<props, now, mounted>>
    /\ UNCHANGED <<registryVars, startVars>>

\* onKeyDown(event)
onKeyDown(keyCode) ==
    /\ mounted
    /\ event' = [type |-> "keydown", keyCode |-> keyCode]
    /\ IF keyCode = 13
       THEN /\ emitted' = searchCalls
            /\ debounced' = searchDebounce(debounced)
       ELSE /\ emitted' = <<>>
            /\ UNCHANGED debounced
    /\ UNCHANGED <<props, now, mounted>>
    /\ UNCHANGED <<registryVars, startVars>>

\* The input's onFocus is props.onFocus.
onFocus ==
    /\ mounted
    /\ event' = [type |-> "focus"]
    /\ emitted' = IF props.onFocus THEN <<Call("onFocus", <<>>)>> ELSE <<>>
    /\ UNCHANGED <<props, debounced, now, mounted>>
    /\ UNCHANGED <<registryVars, startVars>>

\* The debounce's timer runs out: lodash calls search().
timerExpired ==
    /\ mounted
    /\ debounced.timer # None
    /\ now >= debounced.timer[1]
    /\ event' = [type |-> "timer"]
    /\ emitted' = searchCalls
    /\ debounced' = searchDebounce(debounced)
    /\ UNCHANGED <<props, now, mounted>>
    /\ UNCHANGED <<registryVars, startVars>>

\* The debounce componentDidUpdate(prevProps) leaves.
componentDidUpdate(prevProps, p, d) ==
    IF /\ prevProps.debounceDuration # p.debounceDuration
       /\ p.debounceDuration # None
       /\ p.debounceDuration[1] > 0
    THEN debounce(p.debounceDuration[1])
    ELSE d

\* The parent renders the component again, with new props.
setProps(p) ==
    /\ mounted
    /\ p # props
    /\ props' = p
    /\ debounced' = componentDidUpdate(props, p, debounced)
    /\ event' = [type |-> "update"]
    /\ emitted' = <<>>
    /\ UNCHANGED <<now, mounted>>
    /\ UNCHANGED <<registryVars, startVars>>

componentWillUnmount ==
    /\ mounted
    /\ mounted' = FALSE
    /\ debounced' = removeDebounce(debounced)
    /\ event' = [type |-> "unmount"]
    /\ emitted' = <<>>
    /\ UNCHANGED <<props, now>>
    /\ UNCHANGED <<registryVars, startVars>>

Tick ==
    /\ now + TickStep <= MaxTime
    /\ now' = now + TickStep
    /\ UNCHANGED <<props, debounced, mounted, event, emitted>>
    /\ UNCHANGED <<registryVars, startVars>>

\* After UNSAFE_componentWillMount and the first render.
SearchInit ==
    /\ props = DefaultProps
    /\ debounced = debounce(DEBOUNCE_INTERVAL)
    /\ now = 0
    /\ mounted = TRUE
    /\ event = [type |-> "mount"]
    /\ emitted = <<>>

SearchNext ==
    \/ \E value \in Texts : handleChange(value)
    \/ clearSearch
    \/ \E keyCode \in KeyCodes : onKeyDown(keyCode)
    \/ onFocus
    \/ timerExpired
    \/ \E p \in PropsSet : setProps(p)
    \/ componentWillUnmount
    \/ Tick

-----------------------------------------------------------------------------
(* Terria.start                                                            *)

\* The longest config.initializationUrls.
MaxUrls == 2

DotJson == <<".", "j", "s", "o", "n">>
InitDir == <<"i", "n", "i", "t", "/">>
\* What string concatenation makes of the value undefined.
UndefinedString == <<"u", "n", "d", "e", "f", "i", "n", "e", "d">>

Max(a, b) == IF a >= b THEN a ELSE b

\* String.prototype.toLowerCase, on the letters the urls here use
toLowerCaseChar(c) ==
    CASE c = "A" -> "a" [] c = "B" -> "b" [] c = "J" -> "j"
      [] c = "S" -> "s" [] c = "O" -> "o" [] c = "N" -> "n"
      [] OTHER -> c
toLowerCase(s) == [i \in 1..Len(s) |-> toLowerCaseChar(s[i])]

\* String.prototype.substring(start): a negative start counts as 0.
substring(s, start) == SubSeq(s, Max(start, 0) + 1, Len(s))

\* String.prototype.lastIndexOf, 1-based; 0 when c is not in s
lastIndexOf(s, c) ==
    LET at == {i \in 1..Len(s) : s[i] = c}
    IN  IF at = {} THEN 0 ELSE CHOOSE i \in at : \A j \in at : j <= i

\* URI(url).filename(""): the url up to and with its last "/"
filenameRemoved(url) == SubSeq(url, 1, lastIndexOf(url, "/"))

\* URI.directory(): the path up to, and without, its last "/"
directory(uri) == SubSeq(uri, 1, Max(lastIndexOf(uri, "/") - 1, 0))

\* URI(path).absoluteTo(base), for paths without "." and ".." segments: a
\* path that starts with "/" stays; any other goes under base's directory.
absoluteTo(path, base) ==
    IF path # <<>> /\ path[1] = "/" THEN path
    ELSE LET basedir == directory(base)
         IN  (IF basedir # <<>> THEN basedir \o <<"/">> ELSE <<>>) \o path

\* generateInitializationUrl(baseUri, url): an object with baseUri and
\* initFragment, or a string
generateInitializationUrl(base, url) ==
    IF substring(toLowerCase(url), Len(url) - 5) # DotJson
    THEN [isObject |-> TRUE, baseUri |-> base, initFragment |-> url]
    ELSE [isObject |-> FALSE, string |-> absoluteTo(url, base)]

\* buildInitUrlFromFragment(path, fragmentObject): a string has neither an
\* initFragment nor a baseUri property.
buildInitUrlFromFragment(path, fragmentObject) ==
    LET initFragment == IF fragmentObject.isObject
                        THEN fragmentObject.initFragment
                        ELSE UndefinedString
        uri == path \o initFragment \o DotJson
    IN  IF fragmentObject.isObject
        THEN absoluteTo(uri, fragmentObject.baseUri)
        ELSE uri

\* The url start fetches for one entry of config.initializationUrls.
initUrl(base, initializationUrl) ==
    buildInitUrlFromFragment(InitDir,
                             generateInitializationUrl(base, initializationUrl))

\* ---- what the server holds ----

ConfigUrls == {<<"c">>, <<"d", "/", "c">>}

InitEntries ==
    {<<"a">>, <<"b">>, <<"n">>, <<"x">>,
     <<"a">> \o DotJson, <<"B", ".", "J", "S", "O", "N">>}

SeqsUpTo(S, n) == UNION {[1..k -> S] : k \in 0..n}

\* Members of a Magda group: without aspects, without a terria aspect, a
\* group, an item.
MagdaMembers ==
    << [id |-> "m1", name |-> "M1"],
       [id |-> "m2", name |-> "M2", aspects |-> [other |-> TRUE]],
       [id |-> "m3", name |-> "M3",
        aspects |-> [terria |-> [type |-> "group", definition |-> [info |-> "i"]],
                     group |-> [members |-> <<"m5">>]]],
       [id |-> "m4", name |-> "M4",
        aspects |-> [terria |-> [type |-> "wms", definition |-> [url |-> "u"]]]] >>

Configs ==
    {[initializationUrls |-> u] : u \in SeqsUpTo(InitEntries, MaxUrls)}
    \cup {[aspects |-> [group |-> [members |-> MagdaMembers]]],
          [aspects |-> [group |-> [other |-> TRUE]]],
          [aspects |-> [other |-> TRUE]]}

\* The init files, the same under every directory: by file name.
fileName(url) == SubSeq(url, lastIndexOf(url, "/") + 1, Len(url))
InitFileNames ==
    {<<"a">> \o DotJson, <<"b">> \o DotJson, <<"n">> \o DotJson, <<"x">> \o DotJson}
InitFile(url) ==
    LET f == fileName(url)
    IN  CASE f = <<"a">> \o DotJson ->
               [catalog |-> <<"A1", "A2">>, stories |-> <<"storyA">>]
          [] f = <<"b">> \o DotJson -> [stories |-> <<"storyB">>]
          [] f = <<"n">> \o DotJson -> [catalog |-> <<"N1">>]
          [] f = <<"x">> \o DotJson -> [catalog |-> <<"invalid">>]
fileExists(url) == fileName(url) \in InitFileNames

\* updateModelFromJson rejects json it cannot map to the model.
updateModelFromJsonThrows(json) == json.members = <<"invalid">>

\* ---- start ----

\* when.any in when.all's place: resolved with the first init fetch that is.
whenAny(fs) ==
    IF \E k \in 1..Len(fs) : fs[k].state = "fulfilled" THEN "resolved"
    ELSE IF fs # <<>> /\ \A k \in 1..Len(fs) : fs[k].state \in {"failed", "threw"}
         THEN "rejected"
    ELSE IF fs = <<>> THEN "resolved"
    ELSE "pending"

\* The promise start returns, once the config is loaded and has no aspects:
\* when.all of the init fetches' promises.
whenAll(fs) ==
    IF \E k \in 1..Len(fs) : fs[k].state \in {"failed", "threw"} THEN "rejected"
    ELSE IF \A k \in 1..Len(fs) : fs[k].state = "fulfilled" THEN "resolved"
    ELSE "pending"

start(url) ==
    /\ startPromise = "none"
    /\ configUrl' = url
    /\ baseUri' = filenameRemoved(url)
    /\ cfgFetch' = "pending"
    /\ startPromise' = "pending"
    /\ UNCHANGED <<config, fetches, stories, applied>>
    /\ UNCHANGED <<registryVars, searchVars>>

\* r with the fields of d added, d's value where both have the field
Spread(r, d) ==
    [k \in DOMAIN r \cup DOMAIN d |-> IF k \in DOMAIN d THEN d[k] ELSE r[k]]

\* loadMagdaConfig: one member of the Magda group, as a Terria member
magdaMember(member) ==
    IF "aspects" \notin DOMAIN member THEN undefined
    ELSE IF "terria" \notin DOMAIN member.aspects THEN undefined
    ELSE LET terria == member.aspects.terria
         IN  IF "group" \in DOMAIN member.aspects
             THEN [id |-> member.id, name |-> member.name,
                   type |-> "magda-group", url |-> "http://saas.terria.io",
                   groupId |-> member.id,
                   definition |->
                       Spread([type |-> terria.type,
                               members |-> member.aspects.group.members],
                              terria.definition)]
             ELSE Spread([id |-> member.id, name |-> member.name,
                          type |-> terria.type],
                         terria.definition)

\* loadMagdaConfig(config): the updateModelFromJson calls it makes
loadMagdaConfig(cfg) ==
    LET aspects == cfg.aspects
    IN  IF "group" \in DOMAIN aspects /\ "members" \in DOMAIN aspects.group
        THEN LET ms == aspects.group.members
             IN  <<[members |-> [i \in 1..Len(ms) |-> magdaMember(ms[i])]]>>
        ELSE <<>>

\* loadJson5(configUrl) resolves with cfg: start's first then-callback.
configLoaded(cfg) ==
    /\ cfgFetch = "pending"
    /\ cfgFetch' = "done"
    /\ config' = cfg
    /\ IF "aspects" \in DOMAIN cfg
       THEN /\ applied' = applied \o loadMagdaConfig(cfg)
            /\ startPromise' = "resolved"
            /\ UNCHANGED fetches
       ELSE LET urls == cfg.initializationUrls
                fs == [k \in 1..Len(urls) |->
                          [entry |-> urls[k], url |-> initUrl(baseUri, urls[k]),
                           state |-> "pending"]]
            IN  /\ fetches' = fs
                /\ startPromise' = whenAll(fs)
                /\ UNCHANGED applied
    /\ UNCHANGED <<configUrl, baseUri, stories>>
    /\ UNCHANGED <<registryVars, searchVars>>

\* loadJson5(configUrl) rejects.
configFailed ==
    /\ cfgFetch = "pending"
    /\ cfgFetch' = "failed"
    /\ startPromise' = "rejected"
    /\ UNCHANGED <<configUrl, baseUri, config, fetches, stories, applied>>
    /\ UNCHANGED <<registryVars, searchVars>>

\* The k-th init fetch resolves with its file: the inner then-callback.
initLoaded(k) ==
    /\ k \in 1..Len(fetches)
    /\ fetches[k].state = "pending"
    /\ fileExists(fetches[k].url)
    /\ LET initData == InitFile(fetches[k].url)
           json == [members |-> initData.catalog]
           throws == "catalog" \in DOMAIN initData /\ updateModelFromJsonThrows(json)
           fs == [fetches EXCEPT ![k].state = IF throws THEN "threw" ELSE "fulfilled"]
       IN  /\ applied' = IF "catalog" \in DOMAIN initData /\ ~throws
                         THEN Append(applied, json)
                         ELSE applied
           /\ stories' = IF "stories" \in DOMAIN initData /\ ~throws
                         THEN initData.stories
                         ELSE stories
           /\ fetches' = fs
           /\ startPromise' = whenAll(fs)
    /\ UNCHANGED <<configUrl, baseUri, config, cfgFetch>>
    /\ UNCHANGED <<registryVars, searchVars>>

\* The k-th init fetch rejects: no such file, or the network fails.
initFailed(k) ==
    /\ k \in 1..Len(fetches)
    /\ fetches[k].state = "pending"
    /\ LET fs == [fetches EXCEPT ![k].state = "failed"]
       IN  /\ fetches' = fs
           /\ startPromise' = whenAll(fs)
    /\ UNCHANGED <<configUrl, baseUri, config, cfgFetch, stories, applied>>
    /\ UNCHANGED <<registryVars, searchVars>>

StartInit ==
    /\ configUrl = <<>>
    /\ baseUri = <<>>
    /\ config = undefined
    /\ cfgFetch = "none"
    /\ fetches = <<>>
    /\ stories = <<>>
    /\ applied = <<>>
    /\ startPromise = "none"

StartNext ==
    \/ \E url \in ConfigUrls : start(url)
    \/ \E cfg \in Configs : configLoaded(cfg)
    \/ configFailed
    \/ \E k \in 1..MaxUrls : initLoaded(k)
    \/ \E k \in 1..MaxUrls : initFailed(k)

-----------------------------------------------------------------------------
Init == RegistryInit /\ SearchInit /\ StartInit

Next == RegistryNext \/ SearchNext \/ StartNext

Spec == Init /\ [][Next]_vars

\* Each component on its own: the others' variables stay as constructed.
SpecRegistry == Init /\ [][RegistryNext]_vars
SpecSearchBox == Init /\ [][SearchNext]_vars
SpecStart == Init /\ [][StartNext]_vars

-----------------------------------------------------------------------------
(* The claims                                                              *)

Called(fn) == \E i \in 1..Len(emitted) : emitted[i].fn = fn

\* C1, first half: every registered id maps to the first model that addModel
\* was given under it, and every id addModel was given is registered.
FirstModelWins ==
    /\ DOMAIN models = DOMAIN firstAdded
    /\ \A id \in DOMAIN models : models[id] = firstAdded[id]

\* C1, second half: an addModel call with an id the registry already holds
\* throws the RuntimeError and leaves the registry as it was.
DuplicateIdThrows ==
    (/\ lastCall'.op = "addModel"
     /\ ~isRemoved(lastCall'.model.id)
     /\ MapHas(models, lastCall'.model.id))
    => (lastCall'.threw = DuplicateIdError /\ models' = models)

\* C1: addModel keeps model ids unique: a call with an id already in the
\* registry raises RuntimeError("A model with the specified ID already
\* exists.") and leaves the registry unchanged, so that after any sequence of
\* addModel calls every registered id maps to the first model added under it.
C1_AddModelKeepsIdsUnique == [](FirstModelWins) /\ [][DuplicateIdThrows]_vars

\* A second, different model was added under a registered id, and refused.
C1_Witness ==
    /\ lastCall.op = "addModel"
    /\ lastCall.threw = DuplicateIdError
    /\ models[lastCall.model.id] # lastCall.model
    /\ Cardinality(DOMAIN models) = 2

\* The value C2 gives for getModelById(type, id) on the registry map.
ExpectedModel(map, type, id) ==
    IF /\ ~isRemoved(id)
       /\ id \in DOMAIN map
       /\ instanceOf(type, map[id])
    THEN map[id]
    ELSE undefined

GetReturnsRegisteredModelOfType ==
    lastCall.op = "getModelById"
    => lastCall.result = ExpectedModel(models, lastCall.type, lastCall.id)

NoRemovedIdRegistered == \A id \in DOMAIN models : ~isRemoved(id)

GetLeavesRegistry == lastCall'.op = "getModelById" => models' = models

RemovedAddIsNoOp ==
    (lastCall'.op = "addModel" /\ isRemoved(lastCall'.model.id))
    => (lastCall'.threw = NoError /\ models' = models)

\* C2: getModelById(type, id) returns the model registered under id exactly
\* when id is not a removed reference, a model is registered under id and that
\* model is an instance of type, and undefined otherwise; no removed reference
\* is ever registered, addModel with one neither throws nor changes the
\* registry, and getModelById never changes the registry.
C2_GetModelById ==
    /\ [](GetReturnsRegisteredModelOfType /\ NoRemovedIdRegistered)
    /\ [][GetLeavesRegistry /\ RemovedAddIsNoOp]_vars

\* getModelById found a model through a superclass, while the registry also
\* holds a model the same question would not find.
C2_Witness ==
    /\ lastCall.op = "getModelById"
    /\ lastCall.result # undefined
    /\ lastCall.result.cls # lastCall.type
    /\ \E id \in DOMAIN models : ~instanceOf(lastCall.type, models[id])

\* C3: a change event on the input leads to an onSearchTextChanged call only
\* once the debounce interval has elapsed, not within the change event itself.
C3_SearchTextChangedIsDebounced ==
    event.type = "change" => ~Called("onSearchTextChanged")

\* C4: every onDoSearch call is caused by a click on the button or by a
\* keydown with keyCode 13, and by no other event.
C4_DoSearchOnlyOnClickOrEnter ==
    Called("onDoSearch")
    => \/ event.type = "click"
       \/ (event.type = "keydown" /\ event.keyCode = 13)

NoAspects == cfgFetch = "done" /\ "aspects" \notin DOMAIN config

CatalogApplied(url) ==
    "catalog" \in DOMAIN InitFile(url)
    => \E i \in 1..Len(applied) : applied[i] = [members |-> InitFile(url).catalog]

\* C5: when the config has no aspects, the promise start returned is resolved
\* only when the config and the init file of every entry of
\* config.initializationUrls have been fetched and each file's catalog has
\* been applied to the catalog group: never while an init fetch is
\* outstanding; and it is rejected if the config fetch or any init fetch
\* failed.
C5_StartResolvesAfterAllFetches ==
    /\ startPromise = "resolved" =>
          /\ cfgFetch = "done"
          /\ NoAspects =>
                /\ Len(fetches) = Len(config.initializationUrls)
                /\ \A k \in 1..Len(fetches) :
                      /\ fetches[k].state = "fulfilled"
                      /\ CatalogApplied(fetches[k].url)
    /\ (\/ cfgFetch = "failed"
        \/ (NoAspects /\ \E k \in 1..Len(fetches) : fetches[k].state = "failed"))
       => startPromise = "rejected"

\* start resolved after two init files were fetched and their catalogs applied.
C5_Witness ==
    /\ startPromise = "resolved"
    /\ NoAspects
    /\ Len(fetches) = 2
    /\ fetches[1].url # fetches[2].url
    /\ Len(applied) = 2

\* The entry ends in ".json", whatever the case of its letters.
EndsInDotJson(entry) ==
    /\ Len(entry) >= 5
    /\ toLowerCase(SubSeq(entry, Len(entry) - 4, Len(entry))) = DotJson

\* The url C6 names for an entry of config.initializationUrls.
ExpectedInitUrl(cfgUrl, entry) ==
    IF EndsInDotJson(entry)
    THEN absoluteTo(entry, filenameRemoved(cfgUrl))
    ELSE absoluteTo(InitDir \o entry \o DotJson, filenameRemoved(cfgUrl))

\* C6: an entry ending in ".json" (case-insensitive) is fetched from that url
\* resolved against the directory of configUrl, and any other entry f from
\* "init/" + f + ".json" resolved against the directory of configUrl.
C6_FetchesTheRightInitFile ==
    \A k \in 1..Len(fetches) :
        fetches[k].url = ExpectedInitUrl(configUrl, fetches[k].entry)

\* The stories the init files leave when they complete in the order of
\* config.initializationUrls: one of the completion orders.
RECURSIVE StoriesInListOrder(_, _)
StoriesInListOrder(fs, initial) ==
    IF fs = <<>> THEN initial
    ELSE LET initData == InitFile(Head(fs).url)
         IN  StoriesInListOrder(Tail(fs),
                                IF "stories" \in DOMAIN initData
                                THEN initData.stories
                                ELSE initial)

\* C7: for a fixed config and fixed init files, terria.stories after start
\* resolves is the same under every completion order of the fetches: it is
\* what the completion order of the list itself leaves.
C7_StoriesIndependentOfCompletionOrder ==
    (startPromise = "resolved" /\ NoAspects)
    => stories = StoriesInListOrder(fetches, <<>>)

=============================================================================
